---- MODULE Spec2Model ----
(***************************************************************************)
(* Model of services/ui_backend_service/cache/async_search_artifacts.py:   *)
(* the cached search_artifacts coroutine, its cache key generator and the  *)
(* batchiter helper of cache/utils.py.                                     *)
(*                                                                         *)
(* Python values are records [type, v]: type is the Python type name and v *)
(* the text that str() prints between the type's brackets.  Strings that   *)
(* the program manipulates (locations, search terms, cache keys) are TLA+  *)
(* strings, so prefix tests, joins and concatenations are computed.        *)
(***************************************************************************)
EXTENDS Integers, Sequences, FiniteSets, TLC

VARIABLES
    setorder,               \* the process's string hashing: list a set is built from -> its iteration
    now,                    \* wall clock, in ttl units
    cache,                  \* the "default" cache: key -> [value, expires]
    arg_locations,          \* argument `locations` of the call (a sequence of Python values)
    searchterm,             \* argument `searchterm`
    stream_output,          \* argument `stream_output`: "none", "ok" or "raises"
    pc,                     \* position of the coroutine
    locations,              \* local variable `locations` (rebound at lines 50 and 57)
    s3_locations,           \* local variable `s3_locations`
    num_s3_batches,         \* local variable `num_s3_batches`
    batches,                \* what batchiter(s3_locations, S3_BATCH_SIZE) yields
    current_batch_number,   \* loop variable of line 57 (0 before the first batch)
    pos,                    \* index in the batch of the location line 59 handles next
    fetched,                \* local variable `fetched`: location -> JSON document
    content,                \* local variable `content` (Unbound until line 62 first assigns it)
    exc,                    \* local variable `ex`: the exception caught at line 70 or 76
    session,                \* the s3 client of line 56: "none", "open" or "closed"
    events,                 \* what stream_output has received, in order
    fetch_log,              \* the locations passed to get_artifact, in order
    outcomes,               \* what became of each of them: "raised", or how lines 61-74 went
    decoded,                \* location -> the content decode() returned for it
    search_results,         \* the returned map (or NoResult)
    calls                   \* number of calls of search_artifacts so far

vars == <<setorder, now, cache, arg_locations, searchterm, stream_output, pc, locations,
          s3_locations, num_s3_batches, batches, current_batch_number, pos, fetched,
          content, exc, session, events, fetch_log, outcomes, decoded, search_results, calls>>

-----------------------------------------------------------------------------
(* Bounds of the model and program constants *)

\* longest `locations` argument of a call
MaxLocs == 3
\* longest `locations` argument where two full batches are explored
MaxBatchLocs == 4
\* longest `locations` argument where the cache key is explored
MaxKeyLocs == 3
\* longest `locations` argument, number of calls and latest time where the
\* cache is explored
MaxCacheLocs == 2
MaxCalls == 2
MaxTime == 3
\* S3_BATCH_SIZE (512 in the source) scaled down so that inputs of MaxLocs
\* locations span more than one batch
S3_BATCH_SIZE == 2

-----------------------------------------------------------------------------
(* Python values *)

PyStrV(s) == [type |-> "str", v |-> s]
PyNone == [type |-> "NoneType", v |-> "None"]
PyTuple12 == [type |-> "tuple", v |-> "1, 2"]
PySet1 == [type |-> "set", v |-> "1"]
\* a list that contains itself
PyCircular == [type |-> "list", v |-> "[...]"]
Unbound == [type |-> "<unbound>", v |-> ""]

\* isinstance(loc, str)
IsStr(x) == x.type = "str"

\* str(value)
PyStr(x) ==
    CASE x.type = "str" -> x.v
      [] x.type = "NoneType" -> "None"
      [] x.type = "tuple" -> "(" \o x.v \o ")"
      [] x.type = "list" -> "[" \o x.v \o "]"
      [] x.type = "set" -> "{" \o x.v \o "}"

\* json.dumps(x) raises TypeError for values json cannot serialize
JsonSerializable(x) == x.type \in {"str", "NoneType", "tuple", "list"}

\* json.dumps(x) raises ValueError ('Circular reference detected')
JsonCircular(x) == x = PyCircular

\* json.dumps(x): the JSON value written (tuples and lists are both arrays)
JsonDumps(x) ==
    CASE x.type = "str" -> [json |-> "string", v |-> x.v]
      [] x.type = "NoneType" -> [json |-> "null", v |-> ""]
      [] x.type \in {"tuple", "list"} -> [json |-> "array", v |-> x.v]

\* json.loads(j): arrays come back as lists
JsonLoads(j) ==
    CASE j.json = "string" -> [type |-> "str", v |-> j.v]
      [] j.json = "null" -> PyNone
      [] j.json = "array" -> [type |-> "list", v |-> j.v]

\* loc.startswith("s3://")
StartsWithS3(s) == Len(s) >= 5 /\ SubSeq(s, 1, 5) = "s3://"

-----------------------------------------------------------------------------
(* Sequences and sets *)

Range(s) == {s[i] : i \in DOMAIN s}

\* a list kept as it is, repeated elements included
Repeated(s) == s

\* the first occurrences of s, in order
RECURSIVE Dedup(_)
Dedup(s) ==
    IF s = <<>> THEN <<>>
    ELSE LET front == Dedup(SubSeq(s, 1, Len(s) - 1))
             last == s[Len(s)]
         IN IF last \in Range(front) THEN front ELSE Append(front, last)

\* list(frozenset(s)) for a sequence s of strings: the order in which the set
\* iterates is fixed, within a process, by the strings in the order in which
\* they enter the set
FrozensetList(s) == setorder[Dedup(s)]

\* code points of the characters that occur in locations
Ord(c) ==
    CASE c = "-" -> 45 [] c = "/" -> 47 [] c = "3" -> 51 [] c = ":" -> 58
      [] c = "a" -> 97 [] c = "b" -> 98 [] c = "c" -> 99 [] c = "d" -> 100
      [] c = "s" -> 115
      [] c = "x" -> 120

\* a < b for Python strings
RECURSIVE StrLess(_, _)
StrLess(a, b) ==
    IF Len(b) = 0 THEN FALSE
    ELSE IF Len(a) = 0 THEN TRUE
    ELSE LET ca == Ord(SubSeq(a, 1, 1))
             cb == Ord(SubSeq(b, 1, 1))
         IN IF ca # cb THEN ca < cb
            ELSE StrLess(SubSeq(a, 2, Len(a)), SubSeq(b, 2, Len(b)))

\* sorted(s) for a sequence of strings
RECURSIVE Sorted(_)
Sorted(s) ==
    IF s = <<>> THEN <<>>
    ELSE LET rest == Sorted(SubSeq(s, 1, Len(s) - 1))
             x == s[Len(s)]
             before == SelectSeq(rest, LAMBDA y : ~StrLess(x, y))
             after == SubSeq(rest, Len(before) + 1, Len(rest))
         IN before \o <<x>> \o after

\* "-".join(s)
RECURSIVE Join(_)
Join(s) ==
    IF s = <<>> THEN ""
    ELSE IF Len(s) = 1 THEN s[1]
    ELSE s[1] \o "-" \o Join(Tail(s))

\* Strings without line 50's isinstance test: an entry that is not a string
\* stays in the list, as the location "x"
StringsUnfiltered(args) == [i \in DOMAIN args |-> IF IsStr(args[i]) THEN args[i].v ELSE "x"]

\* the strings of a sequence of Python values
Strings(args) ==
    LET strs == SelectSeq(args, IsStr)
    IN [i \in DOMAIN strs |-> strs[i].v]

\* batchiter that yields its last batch even when nothing is left for it: one
\* empty batch for an empty `it`
RECURSIVE batchiterFloor(_, _)
batchiterFloor(it, batch_size) ==
    IF Len(it) <= batch_size THEN <<it>>
    ELSE <<SubSeq(it, 1, batch_size)>>
             \o batchiterFloor(SubSeq(it, batch_size + 1, Len(it)), batch_size)

\* batchiter(it, batch_size): the batches it yields, in order
RECURSIVE batchiter(_, _)
batchiter(it, batch_size) ==
    IF it = <<>> THEN <<>>
    ELSE IF Len(it) <= batch_size THEN <<it>>
    ELSE <<SubSeq(it, 1, batch_size)>>
             \o batchiter(SubSeq(it, batch_size + 1, Len(it)), batch_size)

Max(a, b) == IF a >= b THEN a ELSE b

-----------------------------------------------------------------------------
(* The cache key *)

\* hashlib.sha1(s).hexdigest(), taken to be free of collisions
Sha1Hex(s) == "sha1<" \o s \o ">"

\* KeyString without line 17's sorted() and frozenset(): the strings are joined
\* in argument order, each at its first occurrence
KeyStringUnsorted(locs, term) == Join(Dedup(Strings(locs))) \o term

\* the string `_string` that cache_search_key hashes
KeyString(locs, term) == Join(FrozensetList(Sorted(Strings(locs)))) \o term

\* cache_search_key(function, session, locations, searchterm, stream_output)
cache_search_key(locs, term) == "artifactsearch:" \o Sha1Hex(KeyString(locs, term))

\* TTL (one day unless the environment sets it), in clock units
TTL == 2

\* @cached: the entry of `key` is present and has not expired
CacheFresh(key) == key \in DOMAIN cache /\ now < cache[key].expires

\* @cached: the cache after `value` is stored under `key` for TTL
CacheSet(key, value) == (key :> [value |-> value, expires |-> now + TTL]) @@ cache

-----------------------------------------------------------------------------
(* Inputs *)

S3Locs == {"s3://a", "s3://b", "s3://c"}
OtherLocs == {"x"}
Strs == S3Locs \cup {"s3://d"} \cup OtherLocs
LocArgs == {PyStrV(s) : s \in S3Locs \cup OtherLocs} \cup {PyNone}
SearchTerms == {"hello", "None", "object is too large", "object is not accessible",
                "(1, 2)", "[1, 2]"}
Sinks == {"none", "ok", "raises"}
\* the search terms where the cache and its key are explored
CacheTerms == {"hello", "None"}

\* what decode() can return
Contents == {PyStrV("hello"), PyTuple12, PySet1, PyCircular}

\* what get_artifact can raise: an exception with an `id` attribute and one without
FetchErrors == {[name |-> "MetaflowS3NotFound", id |-> "s3-not-found"],
                [name |-> "S3ObjectTooBig", id |-> ""]}
DecodeError == [name |-> "DecodeError", id |-> ""]
CircularError == [name |-> "Circular reference detected", id |-> ""]
SinkError == [name |-> "SinkError", id |-> ""]
UnboundLocalError == [name |-> "UnboundLocalError", id |-> ""]
NoExc == [name |-> "", id |-> ""]

\* what lines 61-74 can meet for one location
DecodeOutcomes ==
    {[kind |-> "value", c |-> c] : c \in Contents}
        \cup {[kind |-> k, c |-> Unbound] : k \in {"TypeError", "S3ObjectTooBig", "Exception"}}

\* how lines 61-74 go for an outcome: "stored" when line 63 stores the decoded
\* value; "stringified" when the handler of lines 64-67 stores str(content),
\* after a TypeError of decode or of json.dumps; "UnboundLocalError" when line
\* 67 finds `content` unassigned; "S3ObjectTooBig" for lines 68-69; "Exception"
\* for the handler of lines 70-74, which json.dumps of a value that contains
\* itself reaches too
HandledAs(o) ==
    CASE o.kind = "value" ->
             IF JsonCircular(o.c) THEN "Exception"
             ELSE IF JsonSerializable(o.c) THEN "stored"
             ELSE "stringified"
      [] o.kind = "TypeError" ->
             IF content = Unbound THEN "UnboundLocalError" ELSE "stringified"
      [] o.kind = "S3ObjectTooBig" -> "S3ObjectTooBig"
      [] o.kind = "Exception" -> "Exception"

SeqsUpTo(S, n) == UNION {[1..k -> S] : k \in 0..n}

\* the arguments that list the entries that are not strings first and then the
\* strings as sorted() has them
ListedInOrder(S, n) ==
    {a \in SeqsUpTo(S, n) :
        \A i, j \in DOMAIN a :
            i < j => \/ ~IsStr(a[i])
                     \/ IsStr(a[j]) /\ ~StrLess(a[j].v, a[i].v)}

NoResult == [returned |-> FALSE, map |-> <<>>]

-----------------------------------------------------------------------------
(* Events *)

ProgressEvent(num, den) == [type |-> "progress", num |-> num, den |-> den]
ErrorEvent(err, id) == [type |-> "error", message |-> err, id |-> id]

\* `await stream_output(ev)` raises
SinkRaises == stream_output = "raises"

\* stream_error that hands the sink its event ahead of those already sent
stream_error_first(err, id) ==
    IF stream_output = "ok" THEN <<ErrorEvent(err, id)>> \o events ELSE events

\* stream_progress(num) and stream_error(err, id): the events the sink has
\* received afterwards (nothing is sent without a stream_output)
stream_progress(num, den) ==
    IF stream_output = "ok" THEN Append(events, ProgressEvent(num, den)) ELSE events
stream_error(err, id) ==
    IF stream_output = "ok" THEN Append(events, ErrorEvent(err, id)) ELSE events

\* getattr(ex, "id", "generic-error")
ErrId(ex) == IF ex.id = "" THEN "generic-error" ELSE ex.id

-----------------------------------------------------------------------------
(* Initial states *)

Locals0 ==
    /\ pc = "idle"
    /\ locations = <<>>
    /\ s3_locations = <<>>
    /\ num_s3_batches = 0
    /\ batches = <<>>
    /\ current_batch_number = 0
    /\ pos = 0
    /\ fetched = <<>>
    /\ content = Unbound
    /\ exc = NoExc
    /\ session = "none"
    /\ events = <<>>
    /\ fetch_log = <<>>
    /\ outcomes = <<>>
    /\ decoded = <<>>
    /\ search_results = NoResult

\* the orders in which a set can iterate the strings of l
Perms(l) == {t \in [1..Len(l) -> Range(l)] : Range(t) = Range(l)}

\* the string hashings of a process, as far as the sets built from the lists
\* `lists` go: each of them iterates in an order of its own
RECURSIVE HashSeeds(_)
HashSeeds(lists) ==
    IF lists = {} THEN {<<>>}
    ELSE LET l == CHOOSE l \in lists : TRUE
         IN {(l :> t) @@ h : t \in Perms(l), h \in HashSeeds(lists \ {l})}

\* the lists that a call with argument args builds a set from: the strings in
\* the argument's order (line 50) and in sorted order (line 17)
InsertionLists(args) == {Dedup(Strings(args)), Dedup(Sorted(Strings(args)))}

\* a fresh process and one request.  The requests explored are bounded to
\* those that list their strings in sorted order: for them lines 17 and 50
\* build their sets from the same list.  Requests in every other order, for
\* which the two sets are built from different lists, are explored by InitKey.
Init ==
    /\ arg_locations \in ListedInOrder(LocArgs, MaxLocs)
    /\ setorder \in HashSeeds(InsertionLists(arg_locations))
    /\ searchterm \in SearchTerms
    /\ stream_output \in Sinks
    /\ now = 0
    /\ cache = <<>>
    /\ calls = 1
    /\ Locals0

-----------------------------------------------------------------------------
(* search_artifacts *)

\* Call without line 22's @cached: the body runs whatever the cache holds
CallUncached ==
    /\ pc = "idle"
    /\ LET locs == FrozensetList(Strings(arg_locations))
           s3 == SelectSeq(locs, StartsWithS3)
       IN /\ locations' = locs
          /\ s3_locations' = s3
          /\ num_s3_batches' = Max(1, Len(locs) \div S3_BATCH_SIZE)
          /\ batches' = batchiter(s3, S3_BATCH_SIZE)
    /\ fetched' = <<>>
    /\ session' = "open"
    /\ current_batch_number' = 0
    /\ pc' = "loop"
    /\ UNCHANGED <<setorder, now, cache, arg_locations, searchterm, stream_output, pos,
                   content, exc, events, fetch_log, outcomes, decoded, search_results, calls>>

\* Call without line 53's filter: every location is batched for get_artifact
CallUnfiltered ==
    /\ pc = "idle"
    /\ ~CacheFresh(cache_search_key(arg_locations, searchterm))
    /\ LET locs == FrozensetList(Strings(arg_locations))
       IN /\ locations' = locs
          /\ s3_locations' = locs
          /\ num_s3_batches' = Max(1, Len(locs) \div S3_BATCH_SIZE)
          /\ batches' = batchiter(locs, S3_BATCH_SIZE)
    /\ fetched' = <<>>
    /\ session' = "open"
    /\ current_batch_number' = 0
    /\ pc' = "loop"
    /\ UNCHANGED <<setorder, now, cache, arg_locations, searchterm, stream_output, pos,
                   content, exc, events, fetch_log, outcomes, decoded, search_results, calls>>

\* lines 22-56 on a cache miss: filter the locations, count the batches and
\* enter the client's context
Call ==
    /\ pc = "idle"
    /\ ~CacheFresh(cache_search_key(arg_locations, searchterm))
    /\ LET locs == FrozensetList(Strings(arg_locations))
           s3 == SelectSeq(locs, StartsWithS3)
       IN /\ locations' = locs
          /\ s3_locations' = s3
          /\ num_s3_batches' = Max(1, Len(locs) \div S3_BATCH_SIZE)
          /\ batches' = batchiter(s3, S3_BATCH_SIZE)
    /\ fetched' = <<>>
    /\ session' = "open"
    /\ current_batch_number' = 0
    /\ pc' = "loop"
    /\ UNCHANGED <<setorder, now, cache, arg_locations, searchterm, stream_output, pos,
                   content, exc, events, fetch_log, outcomes, decoded, search_results, calls>>

\* lines 22-56 on a cache miss when boto_session.create_client, or entering the
\* client's context, raises: lines 50-55 have run and the exception reaches the
\* caller with no client open
CreateClientFails ==
    /\ pc = "idle"
    /\ ~CacheFresh(cache_search_key(arg_locations, searchterm))
    /\ LET locs == FrozensetList(Strings(arg_locations))
           s3 == SelectSeq(locs, StartsWithS3)
       IN /\ locations' = locs
          /\ s3_locations' = s3
          /\ num_s3_batches' = Max(1, Len(locs) \div S3_BATCH_SIZE)
          /\ batches' = batchiter(s3, S3_BATCH_SIZE)
    /\ fetched' = <<>>
    /\ pc' = "raised"
    /\ UNCHANGED <<setorder, now, cache, arg_locations, searchterm, stream_output,
                   current_batch_number, pos, content, exc, session, events, fetch_log,
                   outcomes, decoded, search_results, calls>>

\* line 57: the next batch is bound to `locations`; line 59 has nothing to do
\* for a batch without locations
NextBatch ==
    /\ pc = "loop"
    /\ current_batch_number < Len(batches)
    /\ current_batch_number' = current_batch_number + 1
    /\ locations' = batches[current_batch_number + 1]
    /\ pos' = 1
    /\ pc' = IF batches[current_batch_number + 1] = <<>> THEN "progress" ELSE "fetch"
    /\ UNCHANGED <<setorder, now, cache, arg_locations, searchterm, stream_output,
                   s3_locations, num_s3_batches, batches, fetched, content, exc, session,
                   events, fetch_log, outcomes, decoded, search_results, calls>>

\* lines 57 and 56: the batches are exhausted and the client's context is left
ExitClient ==
    /\ pc = "loop"
    /\ current_batch_number = Len(batches)
    /\ session' = "closed"
    /\ pc' = "others"
    /\ UNCHANGED <<setorder, now, cache, arg_locations, searchterm, stream_output,
                   locations, s3_locations, num_s3_batches, batches, current_batch_number,
                   pos, fetched, content, exc, events, fetch_log, outcomes,
                   decoded, search_results, calls>>

\* where line 59 goes after a location: the next one, or line 75
AfterLocation ==
    IF pos < Len(locations)
    THEN pos' = pos + 1 /\ pc' = "fetch"
    ELSE pos' = pos /\ pc' = "progress"

\* FetchRaises with get_artifact inside the try of line 61: the exception is
\* reported for the location and line 59 goes on
FetchRaisesIsolated(ex) ==
    /\ pc = "fetch"
    /\ fetch_log' = Append(fetch_log, locations[pos])
    /\ outcomes' = Append(outcomes, "raised")
    /\ events' = stream_error(ex.name, "artifact-handle-failed")
    /\ AfterLocation
    /\ UNCHANGED <<setorder, now, cache, arg_locations, searchterm, stream_output,
                   locations, s3_locations, num_s3_batches, batches, current_batch_number,
                   fetched, content, exc, session, decoded, search_results, calls>>

\* line 60: get_artifact raises; the handler of line 76 catches it
FetchRaises(ex) ==
    /\ pc = "fetch"
    /\ fetch_log' = Append(fetch_log, locations[pos])
    /\ outcomes' = Append(outcomes, "raised")
    /\ exc' = ex
    /\ pc' = "except"
    /\ UNCHANGED <<setorder, now, cache, arg_locations, searchterm, stream_output,
                   locations, s3_locations, num_s3_batches, batches, current_batch_number,
                   pos, fetched, content, session, events, decoded, search_results, calls>>

\* Stored with load_success set whatever the outcome
StoredLoaded(load_success, value) == [load_success |-> TRUE, doc |-> JsonDumps(value)]

\* json.dumps([load_success, value]) as stored in `fetched`
Stored(load_success, value) == [load_success |-> load_success, doc |-> JsonDumps(value)]

\* lines 60-73: get_artifact returns and the location's data is decoded
FetchDecode(o) ==
    /\ pc = "fetch"
    /\ fetch_log' = Append(fetch_log, locations[pos])
    /\ outcomes' = Append(outcomes, HandledAs(o))
    /\ LET location == locations[pos]
       IN CASE o.kind = "value" ->
                 \* lines 62-63, then 64-67 when json.dumps raises TypeError and
                 \* 70-73 when it raises another exception
                 /\ content' = o.c
                 /\ decoded' = (location :> o.c) @@ decoded
                 /\ IF JsonCircular(o.c)
                    THEN /\ exc' = CircularError
                         /\ pc' = "failed"
                         /\ UNCHANGED <<fetched, pos, events>>
                    ELSE /\ fetched' = (location :> Stored(TRUE,
                                           IF JsonSerializable(o.c) THEN o.c
                                           ELSE PyStrV(PyStr(o.c)))) @@ fetched
                         /\ AfterLocation
                         /\ UNCHANGED <<exc, events>>
            [] o.kind = "TypeError" ->
                 \* decode raises TypeError: line 67 reads `content`, which line 62
                 \* has not assigned for this location
                 IF content = Unbound
                 THEN /\ exc' = UnboundLocalError
                      /\ pc' = "except"
                      /\ UNCHANGED <<content, fetched, pos, events, decoded>>
                 ELSE /\ fetched' = (location :> Stored(TRUE, PyStrV(PyStr(content))))
                                        @@ fetched
                      /\ AfterLocation
                      /\ UNCHANGED <<content, exc, events, decoded>>
            [] o.kind = "S3ObjectTooBig" ->
                 \* lines 68-69
                 /\ fetched' = (location :> Stored(FALSE, PyStrV("object is too large")))
                                   @@ fetched
                 /\ AfterLocation
                 /\ UNCHANGED <<content, exc, events, decoded>>
            [] o.kind = "Exception" ->
                 \* lines 70-73: decode's exception is on its way to the sink
                 /\ exc' = DecodeError
                 /\ pc' = "failed"
                 /\ UNCHANGED <<content, fetched, pos, events, decoded>>
    /\ UNCHANGED <<setorder, now, cache, arg_locations, searchterm, stream_output,
                   locations, s3_locations, num_s3_batches, batches, current_batch_number,
                   session, search_results, calls>>

\* line 74: the location's exception is reported; a raising sink is caught at
\* line 76
HandleFailed ==
    /\ pc = "failed"
    /\ IF SinkRaises
       THEN exc' = SinkError /\ pc' = "except" /\ UNCHANGED <<events, pos>>
       ELSE /\ events' = stream_error(exc.name, "artifact-handle-failed")
            /\ AfterLocation
            /\ UNCHANGED exc
    /\ UNCHANGED <<setorder, now, cache, arg_locations, searchterm, stream_output,
                   locations, s3_locations, num_s3_batches, batches, current_batch_number,
                   fetched, content, session, fetch_log, outcomes, decoded, search_results,
                   calls>>

\* line 75: the batch is complete
Progress ==
    /\ pc = "progress"
    /\ IF SinkRaises
       THEN exc' = SinkError /\ pc' = "except" /\ UNCHANGED events
       ELSE /\ events' = stream_progress(current_batch_number, num_s3_batches)
            /\ pc' = "loop"
            /\ UNCHANGED exc
    /\ UNCHANGED <<setorder, now, cache, arg_locations, searchterm, stream_output,
                   locations, s3_locations, num_s3_batches, batches, current_batch_number,
                   pos, fetched, content, session, fetch_log, outcomes,
                   decoded, search_results, calls>>

\* lines 76-79: the batch's exception is reported; the exception of a raising
\* sink is on its way out of the call
BatchExcept ==
    /\ pc = "except"
    /\ IF SinkRaises
       THEN pc' = "leaving" /\ UNCHANGED events
       ELSE /\ events' = stream_error(exc.name, ErrId(exc))
            /\ pc' = "loop"
    /\ UNCHANGED <<setorder, now, cache, arg_locations, searchterm, stream_output, session,
                   locations, s3_locations, num_s3_batches, batches, current_batch_number,
                   pos, fetched, content, exc, fetch_log, outcomes,
                   decoded, search_results, calls>>

\* ExitClientRaising without the exit of line 56's `async with`: the sink's
\* exception leaves the client as it is
ExitClientHeld ==
    /\ pc = "leaving"
    /\ pc' = "raised"
    /\ UNCHANGED <<setorder, now, cache, arg_locations, searchterm, stream_output,
                   locations, s3_locations, num_s3_batches, batches, current_batch_number,
                   pos, fetched, content, exc, session, events, fetch_log, outcomes,
                   decoded, search_results, calls>>

\* line 56: the exception of line 79 leaves the client's context, which is
\* closed, and reaches the caller
ExitClientRaising ==
    /\ pc = "leaving"
    /\ session' = "closed"
    /\ pc' = "raised"
    /\ UNCHANGED <<setorder, now, cache, arg_locations, searchterm, stream_output,
                   locations, s3_locations, num_s3_batches, batches, current_batch_number,
                   pos, fetched, content, exc, events, fetch_log, outcomes, decoded,
                   search_results, calls>>

\* lines 80-84: the locations of `locations` that are not s3:// are reported
\* and recorded as not accessible; a raising sink ends the call
OtherLocations ==
    /\ pc = "others"
    /\ LET other_locations == SelectSeq(locations, LAMBDA loc : ~StartsWithS3(loc))
           n == Len(other_locations)
       IN IF n > 0 /\ SinkRaises
          THEN pc' = "raised" /\ UNCHANGED <<events, fetched>>
          ELSE /\ events' = IF stream_output = "ok"
                            THEN events \o [i \in 1..n |->
                                     ErrorEvent("Artifact is not accessible",
                                                "artifact-not-accessible")]
                            ELSE events
               /\ fetched' = [loc \in Range(other_locations) |->
                                  Stored(FALSE, PyStrV("object is not accessible"))]
                                 @@ fetched
               /\ pc' = "search"
    /\ UNCHANGED <<setorder, now, cache, arg_locations, searchterm, stream_output,
                   locations, s3_locations, num_s3_batches, batches, current_batch_number,
                   pos, content, exc, session, fetch_log, outcomes,
                   decoded, search_results, calls>>

\* lines 90-93: load_success and value of one key
Loaded(key) ==
    IF key \in DOMAIN fetched
    THEN [load_success |-> fetched[key].load_success, value |-> JsonLoads(fetched[key].doc)]
    ELSE [load_success |-> FALSE, value |-> PyNone]

\* lines 95-98: the entry of one key
SearchResult(key) ==
    [included |-> Loaded(key).load_success,
     matches |-> PyStr(Loaded(key).value) = searchterm]

\* lines 86-100, and @cached storing the returned map under the call's key
Search ==
    /\ pc = "search"
    /\ LET map == [key \in Range(locations) |-> SearchResult(key)]
       IN /\ search_results' = [returned |-> TRUE, map |-> map]
          /\ cache' = CacheSet(cache_search_key(arg_locations, searchterm), map)
    /\ pc' = "done"
    /\ UNCHANGED <<setorder, now, arg_locations, searchterm, stream_output, locations,
                   s3_locations, num_s3_batches, batches, current_batch_number, pos,
                   fetched, content, exc, session, events, fetch_log, outcomes, decoded, calls>>

-----------------------------------------------------------------------------
(* One call of search_artifacts in a fresh process *)

Next ==
    \/ Call
    \/ CreateClientFails
    \/ NextBatch
    \/ ExitClient
    \/ \E ex \in FetchErrors : FetchRaises(ex)
    \/ \E o \in DecodeOutcomes : FetchDecode(o)
    \/ HandleFailed
    \/ Progress
    \/ BatchExcept
    \/ ExitClientRaising
    \/ OtherLocations
    \/ Search

Spec == Init /\ [][Next]_vars

-----------------------------------------------------------------------------
(* Two full batches: requests of up to MaxBatchLocs distinct locations, bounded
   to those listed in sorted order, under every iteration order of their set *)

BatchLocs == S3Locs \cup {"s3://d"} \cup OtherLocs

InitBatches ==
    /\ arg_locations \in {a \in SeqsUpTo({PyStrV(s) : s \in BatchLocs}, MaxBatchLocs) :
                              \A i, j \in DOMAIN a : i < j => StrLess(a[i].v, a[j].v)}
    /\ setorder \in HashSeeds(InsertionLists(arg_locations))
    /\ searchterm = "hello"
    /\ stream_output \in {"ok", "raises"}
    /\ now = 0
    /\ cache = <<>>
    /\ calls = 1
    /\ Locals0

SpecBatches == InitBatches /\ [][Next]_vars

-----------------------------------------------------------------------------
(* The cache key of a call: requests in every order, under every iteration
   order of the sets that lines 17 and 50 build *)

KeyArgs == {PyStrV("s3://a"), PyStrV("s3://b"), PyStrV("x"), PyNone}

\* the location collections of the requests whose keys are compared
KeyRequests == SeqsUpTo(KeyArgs, MaxKeyLocs)

\* the set of strings that each of them requests
RequestedBy == [a \in KeyRequests |-> Range(Strings(a))]

\* the lists from which the keys of all requests build their sets
KeyLists == {Dedup(Sorted(Strings(a))) : a \in KeyRequests}

InitKey ==
    /\ arg_locations \in KeyRequests
    /\ setorder \in HashSeeds(InsertionLists(arg_locations) \cup KeyLists)
    /\ searchterm \in CacheTerms
    /\ stream_output = "ok"
    /\ now = 0
    /\ cache = <<>>
    /\ calls = 1
    /\ Locals0

\* @cached builds the key and looks it up; the call goes on from there
NextKey ==
    \/ Call
    \/ CreateClientFails

SpecKey == InitKey /\ [][NextKey]_vars

-----------------------------------------------------------------------------
(* Several calls in one process, served through the cache *)

CacheArgs == {PyStrV("s3://a"), PyNone}

InitCache ==
    /\ arg_locations \in SeqsUpTo(CacheArgs, MaxCacheLocs)
    /\ setorder \in HashSeeds(UNION {InsertionLists(a) :
                                          a \in SeqsUpTo(CacheArgs, MaxCacheLocs)})
    /\ searchterm \in CacheTerms
    /\ stream_output \in {"ok", "raises"}
    /\ now = 0
    /\ cache = <<>>
    /\ calls = 1
    /\ Locals0

\* @cached on a hit: the stored map is returned and the function body is not run
CacheHit ==
    /\ pc = "idle"
    /\ CacheFresh(cache_search_key(arg_locations, searchterm))
    /\ search_results' = [returned |-> TRUE,
                          map |-> cache[cache_search_key(arg_locations, searchterm)].value]
    /\ pc' = "done"
    /\ UNCHANGED <<setorder, now, cache, arg_locations, searchterm, stream_output,
                   locations, s3_locations, num_s3_batches, batches, current_batch_number,
                   pos, fetched, content, exc, session, events, fetch_log, outcomes,
                   decoded, calls>>

\* time passes; the clock is read when @cached looks the key up and when it
\* stores the result, so the time a call takes is let pass before the store
Tick ==
    /\ pc \in {"idle", "search"}
    /\ now < MaxTime
    /\ now' = now + 1
    /\ UNCHANGED <<setorder, cache, arg_locations, searchterm, stream_output, pc,
                   locations, s3_locations, num_s3_batches, batches, current_batch_number,
                   pos, fetched, content, exc, session, events, fetch_log, outcomes, decoded,
                   search_results, calls>>

\* the caller calls search_artifacts again, with the same sink
NewCall(args, term) ==
    /\ pc \in {"done", "raised"}
    /\ calls < MaxCalls
    /\ calls' = calls + 1
    /\ arg_locations' = args
    /\ searchterm' = term
    /\ pc' = "idle"
    /\ locations' = <<>>
    /\ s3_locations' = <<>>
    /\ num_s3_batches' = 0
    /\ batches' = <<>>
    /\ current_batch_number' = 0
    /\ pos' = 0
    /\ fetched' = <<>>
    /\ content' = Unbound
    /\ exc' = NoExc
    /\ session' = "none"
    /\ events' = <<>>
    /\ fetch_log' = <<>>
    /\ outcomes' = <<>>
    /\ decoded' = <<>>
    /\ search_results' = NoResult
    /\ UNCHANGED <<setorder, now, cache, stream_output>>

NextCache ==
    \/ Next
    \/ CacheHit
    \/ Tick
    \/ \E args \in SeqsUpTo(CacheArgs, MaxCacheLocs), term \in CacheTerms : NewCall(args, term)

SpecCache == InitCache /\ [][NextCache]_vars

-----------------------------------------------------------------------------
(* What the claims speak of *)

\* the deduplicated, string-filtered locations of the call
Requested == Range(Strings(arg_locations))

\* the call has returned a result map
Returned == pc = "done" /\ search_results.returned

ResultMap == search_results.map

\* the sink is there and takes every event
SinkOk == stream_output = "ok"

ErrorEvents == SelectSeq(events, LAMBDA e : e.type = "error")
ProgressEvents == SelectSeq(events, LAMBDA e : e.type = "progress")
ErrorsWithId(id) == SelectSeq(ErrorEvents, LAMBDA e : e.id = id)

NotIncluded == [included |-> FALSE, matches |-> FALSE]

\* fraction a is at most fraction b
FractionLeq(a, b) == a.num * b.den <= b.num * a.den

-----------------------------------------------------------------------------
(* Claims *)

\* C1: the key set of the returned map is exactly the deduplicated,
\* string-filtered input location set.
C1_KeySetIsRequested == Returned => DOMAIN ResultMap = Requested

\* C2: in every returned map, included = false implies matches = false.
C2_NotIncludedNotMatching ==
    Returned => \A key \in DOMAIN ResultMap :
                    ~ResultMap[key].included => ~ResultMap[key].matches

\* C3: every requested location that does not start with s3:// ends up as
\* {included: false, matches: false} and triggers exactly one
\* artifact-not-accessible error event, whatever else is requested.
C3_InaccessibleReported ==
    (Returned /\ SinkOk) =>
        /\ \A loc \in Requested :
               ~StartsWithS3(loc) => /\ loc \in DOMAIN ResultMap
                                     /\ ResultMap[loc] = NotIncluded
        /\ Len(ErrorsWithId("artifact-not-accessible"))
               = Cardinality({loc \in Requested : ~StartsWithS3(loc)})

\* C4: an exception raised while one location is fetched or decoded does not
\* halt its batch: once the call has returned, every location of every batch
\* has been passed to get_artifact (the sink raising nothing of its own).
C4_BatchNotHalted ==
    (Returned /\ stream_output # "raises") =>
        \A loc \in Range(s3_locations) : loc \in Range(fetch_log)

\* C5: the progress fractions of a call are non-decreasing and the last one
\* is exactly 1.0.
C5_ProgressEndsAtOne ==
    (Returned /\ SinkOk /\ ProgressEvents # <<>>) =>
        /\ \A i \in 1..(Len(ProgressEvents) - 1) :
               FractionLeq(ProgressEvents[i], ProgressEvents[i + 1])
        /\ LET last == ProgressEvents[Len(ProgressEvents)] IN last.num = last.den

\* a location whose content could not be loaded: not s3://, or passed to
\* get_artifact without a value being recorded for it
Failed(loc) ==
    \/ ~StartsWithS3(loc)
    \/ /\ loc \in Range(fetch_log)
       /\ loc \notin DOMAIN fetched \/ ~fetched[loc].load_success

\* C6: every per-location failure produces an error event and an
\* included: false entry for that location, and never aborts the call.
C6_FailuresIsolated ==
    /\ SinkOk => pc # "raised" \/ session = "none"
    /\ (Returned /\ SinkOk) =>
           /\ \A loc \in Requested :
                  Failed(loc) => /\ loc \in DOMAIN ResultMap
                                 /\ ~ResultMap[loc].included
           /\ Len(ErrorEvents) >= Cardinality({loc \in Requested : Failed(loc)})

\* C10: for a location whose fetch and decode both succeed with content c the
\* entry is included = true, and matches is true exactly when str(c) equals
\* the search term.
C10_MatchIsStrEquality ==
    Returned => \A loc \in DOMAIN ResultMap :
                    loc \in DOMAIN decoded =>
                        /\ ResultMap[loc].included
                        /\ ResultMap[loc].matches <=> (PyStr(decoded[loc]) = searchterm)

\* batch k ended in the handler of line 76: no progress event bears its number
BatchRaised(k) == \A i \in DOMAIN ProgressEvents : ProgressEvents[i].num # k

\* the error events of line 79
BatchErrors ==
    SelectSeq(ErrorEvents,
              LAMBDA e : e.id \notin {"artifact-handle-failed", "artifact-not-accessible"})

\* C7: an exception caught at the batch level in batch k is reported by one
\* error event and does not abort later batches: every location of the batches
\* after k is still fetched, and the call returns a result map.
C7_LaterBatchesFetched ==
    /\ (SinkOk /\ pc = "raised") => session = "none"
    /\ (Returned /\ SinkOk) =>
           /\ Len(BatchErrors)
                  = Cardinality({k \in DOMAIN batches : BatchRaised(k)})
           /\ \A i \in DOMAIN BatchErrors :
                  BatchErrors[i].id \in {"generic-error"} \cup {ex.id : ex \in FetchErrors}
           /\ \A k \in DOMAIN batches : \A j \in DOMAIN batches :
                  (BatchRaised(k) /\ j > k) => Range(batches[j]) \subseteq Range(fetch_log)

\* the cache key of the call
Key == cache_search_key(arg_locations, searchterm)

\* the call has just passed @cached's lookup
JustCalled == pc = "loop" /\ current_batch_number = 0

\* C8: cache_search_key returns the same key for every location collection
\* that holds the same set of strings (in another order, with duplicates or
\* with non-string entries) and the same search term.
C8_KeyIgnoresOrder ==
    JustCalled =>
        LET key == Key
        IN \A other \in KeyRequests :
               RequestedBy[other] = Requested
                   => cache_search_key(other, searchterm) = key

\* C8 witness: a call of two strings whose set iterates in one order when it
\* is built in the argument's order and in the other when built in sorted order
C8_Witness ==
    /\ JustCalled
    /\ arg_locations = <<PyStrV("s3://b"), PyNone, PyStrV("s3://a")>>
    /\ setorder[<<"s3://b", "s3://a">>] # setorder[<<"s3://a", "s3://b">>]
    /\ cache_search_key(<<PyStrV("s3://a"), PyStrV("s3://b"), PyStrV("s3://a")>>, searchterm)
           = Key

\* the call was answered by the cache: it returned without opening a client
ServedFromCache == Returned /\ session = "none"

\* the caller's step out of "idle": @cached has looked the key up
Answered == pc = "idle" /\ pc' # "idle"

C11_OnlyS3Fetched ==
    Range(fetch_log) \subseteq {loc \in Requested : StartsWithS3(loc)}

\* C11 witness: a call for an s3:// location and another one has returned,
\* and only the s3:// location was passed to get_artifact
C11_Witness ==
    /\ Returned
    /\ Requested = {"s3://a", "x"}
    /\ fetch_log = <<"s3://a">>

\* C12: for an empty location collection the call returns the empty map and
\* emits no error event and no progress event (and fetches nothing).
C12_EmptyInputEmptyMap ==
    arg_locations = <<>> =>
        /\ events = <<>>
        /\ fetch_log = <<>>
        /\ Returned => ResultMap = <<>>

\* C12 witness: the call for no location has returned, with a sink to report to
C12_Witness ==
    /\ Returned
    /\ arg_locations = <<>>
    /\ SinkOk
    /\ num_s3_batches = 1

\* C13: every progress event carries a fraction within [0, 1], for every
\* number of locations and every split between s3:// and other locations.
C13_FractionInUnitInterval ==
    \A i \in DOMAIN ProgressEvents :
        /\ 0 <= ProgressEvents[i].num
        /\ ProgressEvents[i].num <= ProgressEvents[i].den

\* the events that end a batch: its progress event or the error event of line 79
BatchEvents ==
    SelectSeq(events,
              LAMBDA e : \/ e.type = "progress"
                         \/ e.id \notin {"artifact-handle-failed", "artifact-not-accessible"})

\* events' is events with further events after it
EventsAppended ==
    /\ Len(events') >= Len(events)
    /\ SubSeq(events', 1, Len(events)) = events

\* C14: progress events reach the sink in strictly increasing batch-index
\* order and error events in the order in which their failures occurred (an
\* event, once delivered, keeps its place); an error raised while batch k is
\* processed is delivered before any event of batch k+1: while batch k is
\* processed the sink holds one batch-ending event for each batch before k, the
\* i-th of them being batch i's.
C14_EventsInOrder ==
    /\ [](SinkOk =>
             /\ \A i \in 1..(Len(ProgressEvents) - 1) :
                    ProgressEvents[i].num < ProgressEvents[i + 1].num
             /\ \A i \in DOMAIN BatchEvents :
                    BatchEvents[i].type = "progress" => BatchEvents[i].num = i
             /\ pc \in {"fetch", "failed", "progress", "except"}
                    => Len(BatchEvents) = current_batch_number - 1
             /\ pc \in {"loop", "others", "search", "done"}
                    => Len(BatchEvents) = current_batch_number)
    /\ [][SinkOk => EventsAppended]_vars

\* C14 witness: the first batch has completed and the second one has raised;
\* the sink holds the progress event and then the error event
C14_Witness ==
    /\ Returned
    /\ SinkOk
    /\ Len(events) = 2
    /\ events[1] = ProgressEvent(1, 1)
    /\ events[2].type = "error"
    /\ events[2].id = "s3-not-found"

\* C15: there is no retry: each location is passed to get_artifact at most
\* once in a call, whatever the outcome of its fetch or decode and however
\* often the input lists it.
C15_FetchedAtMostOnce ==
    \A i, j \in DOMAIN fetch_log : i # j => fetch_log[i] # fetch_log[j]

\* C15 witness: the call for a location listed three times has returned after
\* one fetch, which raised
C15_Witness ==
    /\ Returned
    /\ arg_locations = <<PyStrV("s3://a"), PyStrV("s3://a"), PyStrV("s3://a")>>
    /\ fetch_log = <<"s3://a">>
    /\ outcomes = <<"raised">>

\* the call has ended: it has returned or an exception has left it
Ended == pc \in {"done", "raised"}

\* C16: the client session acquired at the start of a call is released when
\* the call ends, on every path: normal return, caught per-location or batch
\* failures, and an exception that leaves the call (one raised by the sink).
C16_SessionReleased == Ended => session # "open"

\* C16 witness: the sink raised on the error event of a batch whose fetch had
\* raised; the exception has left the call and the client is closed
C16_Witness ==
    /\ pc = "raised"
    /\ session = "closed"
    /\ outcomes = <<"raised">>
    /\ exc \in FetchErrors

\* C17: every key of the returned map is a member of the deduplicated,
\* string-filtered input location set: it is a string that the `locations`
\* argument lists.
C17_KeysWereRequested ==
    Returned => \A key \in DOMAIN ResultMap :
                    \E i \in DOMAIN arg_locations : arg_locations[i] = PyStrV(key)

\* C17 witness: the call for None and "x" has returned a map of one key
C17_Witness ==
    /\ Returned
    /\ arg_locations = <<PyNone, PyStrV("x")>>
    /\ DOMAIN ResultMap = {"x"}

\* get_artifact returned for loc in this call, and lines 61-63 stored the
\* decoded value or lines 64-67 stored str(content) after a TypeError
FetchedAndDecoded(loc) ==
    \E i \in DOMAIN fetch_log :
        /\ fetch_log[i] = loc
        /\ outcomes[i] \in {"stored", "stringified"}

\* C18: a result entry has included = true only if its location starts with
\* s3:// and, in this call, its fetch returned without raising and its decode
\* succeeded or fell back to the stringified value after a TypeError; a
\* location whose fetch raised, whose decode raised another exception or that
\* was never reached is never included.
C18_IncludedOnlyIfLoaded ==
    Returned => \A loc \in DOMAIN ResultMap :
                    ResultMap[loc].included => StartsWithS3(loc) /\ FetchedAndDecoded(loc)

\* C18 witness: of the two locations of the last batch one was decoded and is
\* included, the other one was too large and is not
C18_Witness ==
    /\ Returned
    /\ Len(fetch_log) = 2
    /\ outcomes = <<"stored", "S3ObjectTooBig">>
    /\ ResultMap[fetch_log[1]].included
    /\ ~ResultMap[fetch_log[2]].included

\* the batch of an s3:// location and its place in it
BatchOf(loc) == CHOOSE k \in DOMAIN batches : loc \in Range(batches[k])
PlaceOf(loc) == CHOOSE p \in DOMAIN batches[BatchOf(loc)] : batches[BatchOf(loc)][p] = loc

\* the fetches that raised
RaisedFetches == {i \in DOMAIN fetch_log : outcomes[i] = "raised"}

\* C19: a progress event for batch k is emitted only after every location of
\* batch k has been passed to get_artifact and none of these fetches raised;
\* when a fetch of batch k raises, the locations after it in batch k are never
\* fetched and no progress event is emitted for batch k, only the batch's
\* error event.
C19_ProgressOnlyForFetchedBatch ==
    /\ \A i \in DOMAIN ProgressEvents :
           LET k == ProgressEvents[i].num
           IN /\ k \in DOMAIN batches
              /\ \A p \in DOMAIN batches[k] :
                     \E j \in DOMAIN fetch_log : /\ fetch_log[j] = batches[k][p]
                                                 /\ outcomes[j] # "raised"
    /\ \A j \in RaisedFetches :
           LET k == BatchOf(fetch_log[j])
           IN /\ \A q \in (PlaceOf(fetch_log[j]) + 1)..Len(batches[k]) :
                     batches[k][q] \notin Range(fetch_log)
              /\ BatchRaised(k)
    /\ (SinkOk /\ pc # "except") => Len(BatchErrors) >= Cardinality(RaisedFetches)

\* C19 witness: the first fetch of a batch of two locations raised; the call
\* has returned with one fetch made and the batch's error event alone
C19_Witness ==
    /\ Returned
    /\ SinkOk
    /\ Len(batches) = 1
    /\ Len(batches[1]) = 2
    /\ fetch_log = <<batches[1][1]>>
    /\ outcomes = <<"raised">>
    /\ Len(events) = 1
    /\ events[1].id = "s3-not-found"

\* the search terms of the requests a call is compared with
OtherTerms == CacheTerms \cup {"xhello"}

\* C20: cache_search_key separates distinct requests: two requests whose
\* string-filtered location sets differ or whose search terms differ never
\* produce the same pre-hash string.
C20_KeySeparatesRequests ==
    JustCalled =>
        \A other \in KeyRequests, term \in OtherTerms :
            (RequestedBy[other] # Requested \/ term # searchterm)
                => KeyString(other, term) # KeyString(arg_locations, searchterm)

====
